---- MODULE Spec2Model ----
(***************************************************************************)
(* A model of kauffman77/financeapp: the Fund entity (core.py) and the     *)
(* FundTracker operations (financeapp.py).                                 *)
(*                                                                         *)
(* Python values are tagged records [k |-> kind, v |-> value]:             *)
(*   None            [k |-> "none"]                                        *)
(*   float           [k |-> "num",  v |-> <<n, d>>]  the rational n/d in   *)
(*                   lowest terms, d > 0                                    *)
(*   datetime.date   [k |-> "date", v |-> proleptic ordinal]               *)
(*   list            [k |-> "list", v |-> sequence]                        *)
(*   str             [k |-> "str",  v |-> sequence of characters]          *)
(* A call's outcome is [k |-> "ok", v |-> value] or                        *)
(* [k |-> "raise", v |-> exception class name].                            *)
(***************************************************************************)
EXTENDS Integers, Sequences, FiniteSets, TLC

VARIABLES funds, symbols_names, repo_calls, input, last

vars == <<funds, symbols_names, repo_calls, input, last>>

(***************************************************************************)
(* Bounds of the model.                                                    *)
(***************************************************************************)
MaxPriceTicks == 12
PriceScale == 4
MaxLen == 3

(***************************************************************************)
(* Python values and outcomes.                                             *)
(***************************************************************************)
None == [k |-> "none"]
Ok(v) == [k |-> "ok", v |-> v]
Raise(e) == [k |-> "raise", v |-> e]
PyDate(o) == [k |-> "date", v |-> o]
PyList(s) == [k |-> "list", v |-> s]
PyStr(s) == [k |-> "str", v |-> s]

Abs(n) == IF n < 0 THEN -n ELSE n

RECURSIVE Gcd(_, _)
Gcd(a, b) == IF b = 0 THEN a ELSE Gcd(b, a % b)

\* The float n/d, as a python value (d # 0).
Num(n, d) ==
    LET g == Gcd(Abs(n), Abs(d))
        s == IF d < 0 THEN -1 ELSE 1
    IN [k |-> "num", v |-> <<(s * n) \div g, (s * d) \div g>>]

NumSub(a, b) == Num(a.v[1] * b.v[2] - b.v[1] * a.v[2], a.v[2] * b.v[2])
NumDiv(a, b) == Num(a.v[1] * b.v[2], a.v[2] * b.v[1])
NumMul(a, b) == Num(a.v[1] * b.v[1], a.v[2] * b.v[2])
NumNegAbs(a) == Num(-Abs(a.v[1]), a.v[2])
NumLt(a, b) == a.v[1] * b.v[2] < b.v[1] * a.v[2]
NumIsZero(a) == a.v[1] = 0
Hundred == Num(100, 1)
Zero == Num(0, 1)

\* a == b between python values: values of different types are unequal.
PyEq(a, b) == a.k = b.k /\ a = b

\* Whether a > b / a < b is defined (it raises TypeError otherwise).
PyOrdered(a, b) == a.k = b.k /\ a.k \in {"num", "date"}

PyGt(a, b) == IF a.k = "num" THEN NumLt(b, a) ELSE a.v > b.v

(***************************************************************************)
(* FundTracker.calculate_percentage (financeapp.py 252-272).               *)
(***************************************************************************)
DecreaseWrongDenominator(first_price, last_price) ==
    IF NumIsZero(last_price)
    THEN Raise("ZeroDivisionError")
    ELSE Ok(NumNegAbs(NumMul(NumDiv(NumSub(first_price, last_price), last_price),
                             Hundred)))

\* (first_price - last_price) / first_price * 100, then -abs(...)
Decrease(first_price, last_price) ==
    IF NumIsZero(first_price)
    THEN Raise("ZeroDivisionError")
    ELSE Ok(NumNegAbs(NumMul(NumDiv(NumSub(first_price, last_price), first_price),
                             Hundred)))

\* (last_price - first_price) / last_price * 100
Increase(first_price, last_price) ==
    IF NumIsZero(last_price)
    THEN Raise("ZeroDivisionError")
    ELSE Ok(NumMul(NumDiv(NumSub(last_price, first_price), last_price), Hundred))

calculate_percentage(first_price, last_price) ==
    IF PyEq(first_price, last_price)
    THEN Ok(Zero)
    ELSE IF ~PyOrdered(first_price, last_price)
    THEN Raise("TypeError")                  \* first_price > last_price raises
    ELSE IF first_price.k # "num"
    THEN Raise("TypeError")                  \* timedelta / date raises
    ELSE IF PyGt(first_price, last_price)
    THEN Decrease(first_price, last_price)
    ELSE Increase(first_price, last_price)

(***************************************************************************)
(* str.upper (core.py 59-61).  A string is a sequence of characters.       *)
(***************************************************************************)
LowerCase == <<"a", "b", "c", "d", "e", "f", "g", "h", "i", "j", "k", "l", "m",
               "n", "o", "p", "q", "r", "s", "t", "u", "v", "w", "x", "y", "z">>
UpperCase == <<"A", "B", "C", "D", "E", "F", "G", "H", "I", "J", "K", "L", "M",
               "N", "O", "P", "Q", "R", "S", "T", "U", "V", "W", "X", "Y", "Z">>

UpperChar(c) ==
    IF \E i \in DOMAIN LowerCase : LowerCase[i] = c
    THEN UpperCase[CHOOSE i \in DOMAIN LowerCase : LowerCase[i] = c]
    ELSE c

Upper(s) == [i \in DOMAIN s |-> UpperChar(s[i])]

(***************************************************************************)
(* datetime: strptime(s, '%Y-%m-%d').date(), date - timedelta(days=n) and  *)
(* str(date).  A date string is the triple <<year, month, day>> of its     *)
(* fields; a date is its proleptic Gregorian ordinal.                      *)
(***************************************************************************)
IsLeap(y) == y % 4 = 0 /\ (y % 100 # 0 \/ y % 400 = 0)

DaysInMonth(y, m) ==
    IF m = 2 THEN (IF IsLeap(y) THEN 29 ELSE 28)
    ELSE IF m \in {4, 6, 9, 11} THEN 30 ELSE 31

DaysBeforeYear(y) == (y - 1) * 365 + (y - 1) \div 4 - (y - 1) \div 100 + (y - 1) \div 400

RECURSIVE DaysBeforeMonth(_, _)
DaysBeforeMonth(y, m) ==
    IF m = 1 THEN 0 ELSE DaysBeforeMonth(y, m - 1) + DaysInMonth(y, m - 1)

ToOrdinal(ymd) == DaysBeforeYear(ymd[1]) + DaysBeforeMonth(ymd[1], ymd[2]) + ymd[3]

FromOrdinal(n) ==
    LET y == CHOOSE c \in (n \div 366) .. (n \div 365 + 1) :
                 DaysBeforeYear(c) < n /\ n <= DaysBeforeYear(c + 1)
        r == n - DaysBeforeYear(y)
        m == CHOOSE c \in 1 .. 12 :
                 DaysBeforeMonth(y, c) < r /\ r <= DaysBeforeMonth(y, c) + DaysInMonth(y, c)
    IN <<y, m, r - DaysBeforeMonth(y, m)>>

\* datetime.strptime(s, DATE_FORMAT).date(): ValueError on a malformed string.
strptime(s) ==
    IF /\ Len(s) = 3
       /\ s[1] \in 1 .. 9999
       /\ s[2] \in 1 .. 12
       /\ s[3] \in 1 .. DaysInMonth(s[1], s[2])
    THEN Ok(ToOrdinal(s))
    ELSE Raise("ValueError")

\* date - timedelta(days=n)
DateMinusDays(date, n) == date - n

\* '{}'.format(date): the ISO string of the date.
FormatDate(date) == FromOrdinal(date)

(***************************************************************************)
(* '{:.2f}'.format(x): x rounded to hundredths, as sign, whole part and    *)
(* two decimals; TypeError for None.  A float is modelled by the rational  *)
(* it approximates, so an exact tie is rounded to even.                    *)
(***************************************************************************)
Format2f(x) ==
    IF x.k # "num"
    THEN Raise("TypeError")
    ELSE LET q == Abs(x.v[1]) * 100
             h == q \div x.v[2]
             r == q % x.v[2]
             up == 2 * r > x.v[2] \/ (2 * r = x.v[2] /\ h % 2 = 1)
             c == IF up THEN h + 1 ELSE h
         IN Ok([neg |-> x.v[1] < 0, whole |-> c \div 100, cents |-> c % 100])

\* bool(x) of a price: None and 0.0 are false.
Truthy(x) == x.k # "none" /\ ~(x.k = "num" /\ NumIsZero(x))

(***************************************************************************)
(* Fund (core.py 44-145).  A point is <<date, price>>.                     *)
(***************************************************************************)
RECURSIVE ParsePoints(_)
ParsePoints(dates_prices) ==
    IF dates_prices = <<>>
    THEN Ok(<<>>)
    ELSE LET d == strptime(Head(dates_prices)[1])
             rest == ParsePoints(Tail(dates_prices))
         IN IF d.k = "raise" THEN d
            ELSE IF rest.k = "raise" THEN rest
            ELSE Ok(<<<<d.v, Head(dates_prices)[2]>>>> \o rest.v)

NormalizedSymbol(symbol) == Upper(symbol)

Fund__init__(symbol, currency, instrument_type, dates_prices, name) ==
    LET pts == ParsePoints(dates_prices)
    IN IF pts.k = "raise"
       THEN pts
       ELSE Ok([symbol |-> NormalizedSymbol(symbol),
                currency |-> Upper(currency),
                instrument_type |-> Upper(instrument_type),
                dates_prices |-> pts.v,
                name |-> name])

FirstPoint(dates_prices) == dates_prices[1]

\* self.dates_prices[-1] and self.dates_prices[-2]
LastPoint(dates_prices) == dates_prices[Len(dates_prices)]

SecondToLastPoint(dates_prices) == dates_prices[Len(dates_prices) - 1]

NoFallbackPrice(dp) == Format2f(LastPoint(dp)[2])

\* the price of the "Latest price" line, formatted (core.py 82-85)
LatestFormattedPrice(dp) ==
    IF Truthy(LastPoint(dp)[2])
    THEN Format2f(LastPoint(dp)[2])
    ELSE IF Len(dp) < 2
    THEN Raise("IndexError")
    ELSE Format2f(SecondToLastPoint(dp)[2])

Fund__str__(self) ==
    LET dp == self.dates_prices
    IN IF Len(dp) = 0
       THEN Raise("IndexError")
       ELSE LET price == LatestFormattedPrice(dp)
            IN IF price.k = "raise"
               THEN price
               ELSE Ok(<<[symbol |-> self.symbol,
                          name |-> IF self.name.k = "str" THEN self.name.v ELSE <<>>],
                         [currency |-> self.currency,
                          instrument_type |-> self.instrument_type],
                         [date |-> FormatDate(LastPoint(dp)[1]), price |-> price.v]>>)

(***************************************************************************)
(* Fund.__eq__ (core.py 115-145).  A Fund as a python value carries the    *)
(* position `at` of the object in the working set (0 for an object that is *)
(* not held), which is what `is` compares.  The f-string of line 128       *)
(* formats `other`, which for a Fund is other.__str__().                   *)
(***************************************************************************)
PyFund(f) == [k |-> "Fund", v |-> f, at |-> 0]

HeldFund(working, i) == [k |-> "Fund", v |-> working[i], at |-> i]

EqIgnoringType(self, other) == Ok(FALSE)

EqOtherType(self, other) == Raise("CoreError")

Fund__eq__(self, other) ==
    IF other.k = "Fund" /\ Fund__str__(other.v).k = "raise"
    THEN Fund__str__(other.v)
    ELSE IF other.k = "Fund"
    THEN Ok(self.symbol = other.v.symbol)
    ELSE IF other.k = "str"
    THEN Ok(self.symbol = other.v)
    ELSE EqOtherType(self, other)

(***************************************************************************)
(* FundTracker.day_performance / week_performance / year_performance       *)
(* (financeapp.py 201-250): the three share one body, up to the window.    *)
(***************************************************************************)
\* for date_price in fund.dates_prices: if date_price[0] == target: the last
\* match is kept.
LastMatch(dates_prices, target) ==
    LET hits == {i \in DOMAIN dates_prices : dates_prices[i][1] = target}
    IN IF hits = {}
       THEN None
       ELSE PyList(dates_prices[CHOOSE i \in hits : \A j \in hits : j <= i])

NearestEarlier(dates_prices, target) ==
    LET hits == {i \in DOMAIN dates_prices : dates_prices[i][1] <= target}
    IN IF hits = {}
       THEN None
       ELSE PyList(dates_prices[CHOOSE i \in hits :
                                    \A j \in hits : dates_prices[j][1] <= dates_prices[i][1]])

FindPoint(dates_prices, target) == LastMatch(dates_prices, target)

WindowPerformance(fund, days) ==
    IF Len(fund.dates_prices) = 0
    THEN Raise("IndexError")
    ELSE LET most_current == LastPoint(fund.dates_prices)
             before == FindPoint(fund.dates_prices,
                                 DateMinusDays(most_current[1], days))
         IN IF before.k = "none"
            THEN Ok(<<None, fund>>)
            ELSE LET difference == calculate_percentage(before.v[2], most_current[2])
                 IN IF difference.k = "raise"
                    THEN difference
                    ELSE Ok(<<difference.v, fund>>)

DayWindow == 1
WeekWindow == 7
YearWindow == 52 * WeekWindow

day_performance(fund) == WindowPerformance(fund, DayWindow)

week_performance(fund) == WindowPerformance(fund, WeekWindow)

year_performance(fund) == WindowPerformance(fund, YearWindow)

(***************************************************************************)
(* FundTracker.generate_fund_performance_str (financeapp.py 142-171).      *)
(* The string is the sequence of its lines.                                *)
(***************************************************************************)
\* '{:.2f}'.format(lookup(fund)[0]) and the line built from it
PerformanceLine(label, lookup) ==
    IF lookup.k = "raise"
    THEN lookup
    ELSE LET change == Format2f(lookup.v[1])
         IN IF change.k = "raise"
            THEN change
            ELSE Ok(<<[label |-> label, change |-> change.v]>>)

RECURSIVE AppendLines(_, _)
AppendLines(performance, lines) ==
    IF lines = <<>> \/ performance.k = "raise"
    THEN performance
    ELSE IF Head(lines).k = "raise"
    THEN Head(lines)
    ELSE AppendLines(Ok(performance.v \o Head(lines).v), Tail(lines))

generate_fund_performance_str(fund, day, week, year) ==
    AppendLines(
        Fund__str__(fund),
        (IF day THEN <<PerformanceLine("Previous 24 hours", day_performance(fund))>>
                ELSE <<>>)
        \o (IF week THEN <<PerformanceLine("Previous week", week_performance(fund))>>
                    ELSE <<>>)
        \o (IF year THEN <<PerformanceLine("Previous year", year_performance(fund))>>
                    ELSE <<>>))

(***************************************************************************)
(* Provider payloads (financeapp.py 98-106): None, or a dict keyed by the  *)
(* symbol whose value holds 'currency', 'instrumentType' and 'prices', a   *)
(* list of <<formatted_date, close>> records.  Missing marks an absent     *)
(* key.                                                                    *)
(***************************************************************************)
Missing == [k |-> "missing"]
EmptyDict == [k |-> "dict", keys |-> <<>>]
Payload(symbol, currency, instrument_type, prices) ==
    [k |-> "dict", keys |-> <<symbol>>,
     body |-> [currency |-> currency, instrumentType |-> instrument_type,
               prices |-> prices]]

\* bool(data) of a provider result
DataTruthy(data) == data.k = "dict" /\ data.keys # <<>>

(***************************************************************************)
(* FundTracker.parse_fund_data (financeapp.py 91-124).                     *)
(***************************************************************************)
parse_fund_data(data) ==
    IF data.k # "dict"
    THEN Raise("AttributeError")             \* None has no keys()
    ELSE IF data.keys = <<>>
    THEN Raise("IndexError")                 \* key[0] of an empty tuple
    ELSE IF \/ data.body.currency = Missing
            \/ data.body.instrumentType = Missing
            \/ data.body.prices = Missing
    THEN Raise("KeyError")
    ELSE Ok(PyList(<<data.keys[1], data.body.currency.v, data.body.instrumentType.v,
                     data.body.prices.v>>))

(***************************************************************************)
(* FundTracker.instantiate_funds (financeapp.py 65-89).  results[i] is     *)
(* what get_fund_data returns for the i-th tracked entry.  The outcome is  *)
(* the working set after the loop and the exception that ended it, if any. *)
(***************************************************************************)
RECURSIVE InstantiateLoop(_, _, _, _)
InstantiateLoop(entries, results, i, acc) ==
    IF i > Len(entries)
    THEN [funds |-> acc, raised |-> None, calls |-> Len(entries)]
    ELSE LET data == results[i]
         IN IF ~DataTruthy(data)
            THEN InstantiateLoop(entries, results, i + 1, acc)
            ELSE LET fund_data == parse_fund_data(data)
                 IN IF fund_data.k = "raise"
                    THEN [funds |-> acc, raised |-> fund_data, calls |-> i]
                    ELSE IF fund_data.v.k = "none"
                    THEN InstantiateLoop(entries, results, i + 1, acc)
                    ELSE LET a == fund_data.v.v
                             name == IF Len(entries[i]) > 1
                                     THEN PyStr(entries[i][2]) ELSE None
                             fund == Fund__init__(a[1], a[2], a[3], a[4], name)
                         IN IF fund.k = "raise"
                            THEN [funds |-> acc, raised |-> fund, calls |-> i]
                            ELSE InstantiateLoop(entries, results, i + 1,
                                                 Append(acc, fund.v))

\* self.funds = [] before the loop: a run that replaces the working set
InstantiateReplacing(working, entries, results) ==
    InstantiateLoop(entries, results, 1, <<>>)

instantiate_funds(working, entries, results) ==
    InstantiateLoop(entries, results, 1, working)

(***************************************************************************)
(* FundTracker.save (financeapp.py 126-140): the arguments handed to       *)
(* self.repo.save.                                                         *)
(***************************************************************************)
\* if not data: data = self.funds
save(working, data, data_file) ==
    [data |-> IF data.k = "none" \/ data.v = <<>> THEN working ELSE data.v,
     data_file |-> data_file]

(***************************************************************************)
(* FundTracker.custom_range_performance (financeapp.py 173-199).           *)
(***************************************************************************)
\* fund in self.funds / self.funds.index(fund): the index of the first held
\* fund equal to `fund` (0 when none), or the exception a comparison raised.
RECURSIVE IndexOf(_, _, _)
IndexOf(working, fund, i) ==
    IF i > Len(working)
    THEN Ok(0)
    ELSE LET eq == IF fund.k = "Fund" /\ fund.at = i
                   THEN Ok(TRUE)               \* the held object itself
                   ELSE Fund__eq__(working[i], fund)
         IN IF eq.k = "raise" THEN eq
            ELSE IF eq.v THEN Ok(i)
            ELSE IndexOf(working, fund, i + 1)

\* Lines 180-189: the start and end "prices" found in the held series.
HeldPrices(target_fund, start_date, end_date) ==
    LET dp == target_fund.dates_prices
    IN IF Len(dp) < 2
       THEN Raise("IndexError")        \* dates_prices[0] or dates_prices[:-1][0]
       ELSE LET most_current_date == dp[1][1]
                end_date_price == IF end_date >= most_current_date
                                  THEN PyDate(most_current_date) ELSE None
                start_date_price ==
                    IF start_date > dp[1][1] /\ \E i \in DOMAIN dp : dp[i][1] = start_date
                    THEN PyList(dp) ELSE None
            IN Ok([start |-> start_date_price, end |-> end_date_price])

\* Lines 192-196: the prices of a freshly fetched series.
FetchedPrices(data) ==
    LET parsed_data == parse_fund_data(data)
    IN IF parsed_data.k = "raise"
       THEN parsed_data
       ELSE LET a == parsed_data.v.v
                target_fund == Fund__init__(a[1], a[2], a[3], a[4], None)
            IN IF target_fund.k = "raise"
               THEN target_fund
               ELSE IF target_fund.v.dates_prices = <<>>
               THEN Raise("IndexError")
               ELSE Ok([start |-> LastPoint(target_fund.v.dates_prices)[2],
                        end |-> target_fund.v.dates_prices[1][2]])

\* Lines 198-199: the percentage of the two "prices" and the returned tuple.
RangeResult(prices, fetched, start_date, end_date, fund) ==
    IF prices.k = "raise"
    THEN [result |-> prices, fetched |-> fetched]
    ELSE \* difference = self.calculate_percentage(start_date_price, end_date_price)
         LET Returned(difference) ==
                 IF difference.k = "raise"
                 THEN difference
                 ELSE Ok(<<difference.v, start_date, end_date, fund>>)
         IN [result |-> Returned(calculate_percentage(prices.v.start, prices.v.end)),
             fetched |-> fetched]

\* Lines 191-196: if start_date_price is None, the series is fetched.
RangeFromHeld(held, start_date, end_date, fund, data) ==
    IF held.k = "raise"
    THEN [result |-> held, fetched |-> 0]
    ELSE RangeResult(IF held.v.start.k = "none" THEN FetchedPrices(data) ELSE held,
                     IF held.v.start.k = "none" THEN 1 ELSE 0,
                     start_date, end_date, fund)

\* Lines 180-189: if fund in self.funds, the held series is read.
RangeFromIndex(idx, working, start_date, end_date, fund, data) ==
    IF idx.k = "raise"
    THEN [result |-> idx, fetched |-> 0]
    ELSE RangeFromHeld(IF idx.v = 0
                       THEN Ok([start |-> None, end |-> None])
                       ELSE HeldPrices(working[idx.v], start_date, end_date),
                       start_date, end_date, fund, data)

\* Lines 174-175 done: start_date and end_date are the outcomes of strptime.
RangeFromDates(start_date, end_date, working, fund, data) ==
    IF start_date.k = "raise" THEN [result |-> start_date, fetched |-> 0]
    ELSE IF end_date.k = "raise" THEN [result |-> end_date, fetched |-> 0]
    ELSE RangeFromIndex(IndexOf(working, fund, 1), working,
                        start_date.v, end_date.v, fund, data)

\* The outcome and the number of provider calls made.  `data` is what
\* get_custom_fund_data would return.
custom_range_performance(working, fund, start_string, end_string, data) ==
    RangeFromDates(strptime(start_string), strptime(end_string), working, fund, data)

(***************************************************************************)
(* Inputs.  Prices for calculate_percentage: k / PriceScale for            *)
(* k in 0 .. MaxPriceTicks.  Series: up to MaxLen points with distinct     *)
(* dates, in date order, either oldest first or most recent first.         *)
(***************************************************************************)
AllPrices == {Num(t, PriceScale) : t \in 0 .. MaxPriceTicks}

BaseDate == <<2022, 4, 5>>
DayOffsets == {0, 1, 2, 7, 364}
DateStrings == {FormatDate(DateMinusDays(ToOrdinal(BaseDate), o)) : o \in DayOffsets}
SeriesPrices == {None, Num(0, 1), Num(7842, 100), Num(80, 1), Num(100, 1)}

Ascending(dp) == \A i \in 1 .. Len(dp) - 1 : dp[i][1] < dp[i + 1][1]
Descending(dp) == \A i \in 1 .. Len(dp) - 1 : dp[i][1] > dp[i + 1][1]

RawOrdinals(raw) == [i \in DOMAIN raw |-> <<ToOrdinal(raw[i][1]), raw[i][2]>>]

SeriesInputs ==
    UNION {{raw \in [1 .. n -> DateStrings \X SeriesPrices] :
               Ascending(RawOrdinals(raw)) \/ Descending(RawOrdinals(raw))}
           : n \in 1 .. MaxLen}

Str_f == <<"f">>
Str_F == <<"F">>
Str_fxaix == <<"f", "x", "a", "i", "x">>
Str_FXAIX == <<"F", "X", "A", "I", "X">>
Str_Fxaix == <<"F", "x", "a", "i", "x">>
Str_usd == <<"u", "s", "d">>
Str_EUR == <<"E", "U", "R">>
Str_stock == <<"s", "t", "o", "c", "k">>
Str_Ford == <<"F", "o", "r", "d">>

SymbolInputs == {Str_f, Str_F, Str_fxaix, Str_FXAIX, Str_Fxaix}
NameInputs == {None, PyStr(Str_Ford)}

\* Values a Fund is compared with that are neither a Fund nor a str.
OtherTypeInputs == {None, Num(5, 1), PyList(<<>>)}

Idle == [op |-> "none"]

tracker == <<funds, symbols_names, repo_calls>>

EmptyTracker ==
    /\ funds = <<>>
    /\ symbols_names = <<>>
    /\ repo_calls = <<>>

(***************************************************************************)
(* SpecPct: calculate_percentage applied once to a drawn pair of prices.   *)
(***************************************************************************)
InitPct ==
    /\ EmptyTracker
    /\ input \in AllPrices \X AllPrices
    /\ last = Idle

CalcPercentage ==
    /\ last = Idle
    /\ last' = [op |-> "calculate_percentage",
                first |-> input[1],
                last |-> input[2],
                result |-> calculate_percentage(input[1], input[2])]
    /\ UNCHANGED <<tracker, input>>

NextPct == CalcPercentage

SpecPct == InitPct /\ [][NextPct]_vars

(***************************************************************************)
(* SpecFund: one operation on one Fund.  The drawn input is the symbol as  *)
(* given to the constructor and the Fund constructed from it.              *)
(***************************************************************************)
FundInputs ==
    {[symbol |-> Str_f,
      fund |-> Fund__init__(Str_f, Str_usd, Str_stock, raw, name).v] :
        raw \in SeriesInputs, name \in NameInputs}

EqInputs ==
    {[symbol |-> symbol,
      fund |-> Fund__init__(symbol, Str_usd, Str_stock, <<>>, None).v] :
        symbol \in SymbolInputs}

InitFund ==
    /\ EmptyTracker
    /\ input \in FundInputs \cup EqInputs
    /\ last = Idle

DayPerformance ==
    /\ last = Idle
    /\ input \in FundInputs
    /\ last' = [op |-> "day_performance", window |-> DayWindow, fund |-> input.fund,
                result |-> day_performance(input.fund)]
    /\ UNCHANGED <<tracker, input>>

WeekPerformance ==
    /\ last = Idle
    /\ input \in FundInputs
    /\ last' = [op |-> "week_performance", window |-> WeekWindow, fund |-> input.fund,
                result |-> week_performance(input.fund)]
    /\ UNCHANGED <<tracker, input>>

YearPerformance ==
    /\ last = Idle
    /\ input \in FundInputs
    /\ last' = [op |-> "year_performance", window |-> YearWindow, fund |-> input.fund,
                result |-> year_performance(input.fund)]
    /\ UNCHANGED <<tracker, input>>

FundStr ==
    /\ last = Idle
    /\ input \in FundInputs
    /\ last' = [op |-> "__str__", fund |-> input.fund,
                result |-> Fund__str__(input.fund)]
    /\ UNCHANGED <<tracker, input>>

GenerateFundPerformanceStr ==
    /\ last = Idle
    /\ input \in FundInputs
    /\ \E day \in BOOLEAN, week \in BOOLEAN, year \in BOOLEAN :
          last' = [op |-> "generate_fund_performance_str", fund |-> input.fund,
                   day |-> day, week |-> week, year |-> year,
                   result |-> generate_fund_performance_str(input.fund, day, week, year)]
    /\ UNCHANGED <<tracker, input>>

\* input.fund == other, for other a Fund built from other_symbol, the raw
\* string other_symbol, or a value of another type.
FundEq ==
    /\ last = Idle
    /\ input \in EqInputs
    /\ \E other_symbol \in SymbolInputs, currency \in {Str_usd, Str_EUR},
          name \in NameInputs, pts \in {<<>>, <<<<BaseDate, Num(80, 1)>>>>} :
          LET built == Fund__init__(other_symbol, currency, Str_stock, pts, name).v
          IN \E other \in {PyFund(built), PyStr(other_symbol)} \cup OtherTypeInputs :
                last' = [op |-> "__eq__", symbol |-> input.symbol,
                         other_symbol |-> other_symbol, self |-> input.fund,
                         other |-> other, result |-> Fund__eq__(input.fund, other)]
    /\ UNCHANGED <<tracker, input>>

NextFund ==
    \/ DayPerformance
    \/ WeekPerformance
    \/ YearPerformance
    \/ FundStr
    \/ GenerateFundPerformanceStr
    \/ FundEq

SpecFund == InitFund /\ [][NextFund]_vars

(***************************************************************************)
(* C1: calculate_percentage(first, last) is exactly 0.0 when first = last; *)
(* it is -((first - last) / first * 100) and strictly negative when        *)
(* first > last; it is (last - first) / last * 100 and strictly positive   *)
(* when first < last.  The expected values are stated by cross             *)
(* multiplication over the integers: with first = a/s and last = b/s and   *)
(* the result n/d, n/d = -(a-b)*100/a is n*a = -(a-b)*100*d.               *)
(***************************************************************************)
C1_PercentageFormulas ==
    last.op = "calculate_percentage" =>
        LET a == last.first.v[1] * last.last.v[2]
            b == last.last.v[1] * last.first.v[2]
            r == last.result
        IN /\ r.k = "ok"
           /\ r.v.k = "num"
           /\ r.v.v[2] > 0
           /\ (a = b) => r.v.v[1] = 0
           /\ (a > b) => /\ r.v.v[1] < 0
                         /\ r.v.v[1] * a = -((a - b) * 100 * r.v.v[2])
           /\ (a < b) => /\ r.v.v[1] > 0
                         /\ r.v.v[1] * b = (b - a) * 100 * r.v.v[2]

C1_Witness ==
    /\ last.op = "calculate_percentage"
    /\ last.first = Num(2, 1)
    /\ last.last = Num(3, 2)
    /\ last.result = Ok(Num(-25, 1))

(***************************************************************************)
(* Spec: the FundTracker.  The tracked entries come from the repository    *)
(* (financeapp.py 61-62); input[s] is what the provider returns for the    *)
(* tracked symbol, the same at every fetch of a run.  The calls are made   *)
(* one after the other: last holds the call in progress and its outcome,   *)
(* and repo_calls the calls it made to the repository, until the caller    *)
(* takes the result.                                                       *)
(***************************************************************************)
MaxTracked == 2
MaxFunds == 4

TrackedEntries == {<<Str_f>>, <<Str_fxaix, Str_Ford>>}

TrackedSymbols == {e[1] : e \in TrackedEntries}

TrackedLists == UNION {[1 .. n -> TrackedEntries] : n \in 0 .. MaxTracked}

D(o) == FormatDate(DateMinusDays(ToOrdinal(BaseDate), o))

OldestFirst == <<<<D(7), Num(80, 1)>>, <<D(1), Num(100, 1)>>, <<D(0), Num(80, 1)>>>>
RecentFirst == <<<<D(0), Num(80, 1)>>, <<D(1), Num(100, 1)>>, <<D(7), Num(80, 1)>>>>
LatestAbsent == <<<<D(1), Num(7842, 100)>>, <<D(0), None>>>>
SinglePoint == <<<<D(0), None>>>>
MalformedDate == <<<<<<2022, 13, 5>>, Num(80, 1)>>>>

TrackedSeries == {OldestFirst, RecentFirst, LatestAbsent, SinglePoint, MalformedDate}

\* What get_fund_data(symbol) may return.
ProviderResults(symbol) ==
    {None, EmptyDict,
     Payload(symbol, PyStr(Str_usd), PyStr(Str_stock), Missing)}
    \cup {Payload(symbol, PyStr(Str_usd), PyStr(Str_stock), PyList(raw)) :
             raw \in TrackedSeries}

\* What get_custom_fund_data(fund, start, end) may return for a symbol.
CustomResults(symbol, start_string, end_string) ==
    {None,
     Payload(symbol, PyStr(Str_usd), PyStr(Str_stock), PyList(<<>>)),
     Payload(symbol, PyStr(Str_usd), PyStr(Str_stock),
             PyList(<<<<end_string, Num(100, 1)>>, <<start_string, Num(80, 1)>>>>)),
     Payload(symbol, PyStr(Str_usd), PyStr(Str_stock),
             PyList(<<<<end_string, None>>, <<start_string, Num(80, 1)>>>>))}

Init ==
    /\ funds = <<>>
    /\ symbols_names \in TrackedLists
    /\ repo_calls = <<>>
    /\ input \in {w \in [TrackedSymbols ->
                            UNION {ProviderResults(sym) : sym \in TrackedSymbols}] :
                     \A sym \in TrackedSymbols :
                         IF \E i \in DOMAIN symbols_names : symbols_names[i][1] = sym
                         THEN w[sym] \in ProviderResults(sym)
                         ELSE w[sym] = None}
    /\ last = Idle

InstantiateFunds ==
    /\ last = Idle
    /\ Len(funds) + Len(symbols_names) <= MaxFunds
    /\ LET results == [i \in DOMAIN symbols_names |-> input[symbols_names[i][1]]]
           out == instantiate_funds(funds, symbols_names, results)
       IN /\ funds' = out.funds
          /\ last' = [op |-> "instantiate_funds", before |-> Len(funds),
                      fetched |-> out.calls,
                      result |-> IF out.raised = None
                                 THEN Ok(PyList(out.funds)) ELSE out.raised]
    /\ UNCHANGED <<symbols_names, repo_calls, input>>

\* A fund that is not tracked, for a list of funds given to save.
OtherFund == Fund__init__(<<"g", "s">>, Str_usd, Str_stock, <<>>, None).v

False == [k |-> "bool", v |-> FALSE]

Save ==
    /\ last = Idle
    /\ \E data \in {None, PyList(<<>>), PyList(<<OtherFund>>)},
          data_file \in {False, PyStr(<<"p">>)} :
          /\ repo_calls' = <<save(funds, data, data_file)>>
          /\ last' = [op |-> "save", data |-> data, data_file |-> data_file,
                      result |-> Ok(None)]
    /\ UNCHANGED <<funds, symbols_names, input>>

\* The symbol the provider is asked for, given the fund argument.
SymbolOf(fund) ==
    IF fund.k = "Fund" THEN fund.v.symbol ELSE IF fund.k = "str" THEN fund.v ELSE <<>>

CustomRangePerformance ==
    /\ last = Idle
    /\ \E fund \in {HeldFund(funds, i) : i \in DOMAIN funds}
                       \cup {PyStr(Str_F), PyStr(Str_f)} \cup OtherTypeInputs,
          dates \in {<<D(1), D(0)>>, <<D(2), D(0)>>, <<D(7), D(1)>>} :
          \E data \in CustomResults(SymbolOf(fund), dates[1], dates[2]) :
          \E out \in {custom_range_performance(funds, fund, dates[1], dates[2], data)} :
             last' = [op |-> "custom_range_performance", fund |-> fund,
                      start |-> dates[1], end |-> dates[2],
                      fetched |-> out.fetched, result |-> out.result]
    /\ UNCHANGED <<funds, symbols_names, repo_calls, input>>

HeldDayPerformance ==
    /\ last = Idle
    /\ \E i \in DOMAIN funds :
          last' = [op |-> "day_performance", window |-> DayWindow, fund |-> funds[i],
                   result |-> day_performance(funds[i])]
    /\ UNCHANGED <<tracker, input>>

HeldWeekPerformance ==
    /\ last = Idle
    /\ \E i \in DOMAIN funds :
          last' = [op |-> "week_performance", window |-> WeekWindow, fund |-> funds[i],
                   result |-> week_performance(funds[i])]
    /\ UNCHANGED <<tracker, input>>

HeldYearPerformance ==
    /\ last = Idle
    /\ \E i \in DOMAIN funds :
          last' = [op |-> "year_performance", window |-> YearWindow, fund |-> funds[i],
                   result |-> year_performance(funds[i])]
    /\ UNCHANGED <<tracker, input>>

HeldGenerateFundPerformanceStr ==
    /\ last = Idle
    /\ \E i \in DOMAIN funds, window \in BOOLEAN :
          last' = [op |-> "generate_fund_performance_str", fund |-> funds[i],
                   day |-> window, week |-> window, year |-> window,
                   result |-> generate_fund_performance_str(funds[i], window, window,
                                                            window)]
    /\ UNCHANGED <<tracker, input>>

HeldFundEq ==
    /\ last = Idle
    /\ \E i \in DOMAIN funds :
          \E other \in {HeldFund(funds, j) : j \in DOMAIN funds}
                           \cup {PyStr(Str_F), PyStr(Str_f)} \cup OtherTypeInputs :
             last' = [op |-> "__eq__", self |-> funds[i], other |-> other,
                      result |-> Fund__eq__(funds[i], other)]
    /\ UNCHANGED <<tracker, input>>

\* The caller takes the result; the tracker is ready for the next call.
Return ==
    /\ last # Idle
    /\ last' = Idle
    /\ repo_calls' = <<>>
    /\ UNCHANGED <<funds, symbols_names, input>>

Next ==
    \/ Return
    \/ InstantiateFunds
    \/ Save
    \/ CustomRangePerformance
    \/ HeldDayPerformance
    \/ HeldWeekPerformance
    \/ HeldYearPerformance
    \/ HeldGenerateFundPerformanceStr
    \/ HeldFundEq

Spec == Init /\ [][Next]_vars

(***************************************************************************)
(* Vocabulary of the claims about series: the points ranked by date, not   *)
(* by position.                                                            *)
(***************************************************************************)
MostRecent(dp) == dp[CHOOSE i \in DOMAIN dp : \A j \in DOMAIN dp : dp[j][1] <= dp[i][1]]

SecondMostRecent(dp) ==
    dp[CHOOSE i \in DOMAIN dp :
          /\ dp[i] # MostRecent(dp)
          /\ \A j \in DOMAIN dp : dp[j] # MostRecent(dp) => dp[j][1] <= dp[i][1]]

HasPointAt(dp, date) == \E i \in DOMAIN dp : dp[i][1] = date

PointAt(dp, date) == dp[CHOOSE i \in DOMAIN dp : dp[i][1] = date]

IsLookup == last.op \in {"day_performance", "week_performance", "year_performance"}

\* 1, 7 and 364 days, as the claims state them
ClaimedWindow ==
    CASE last.op = "day_performance" -> 1
      [] last.op = "week_performance" -> 7
      [] last.op = "year_performance" -> 364

\* percentage_change(found.price, current.price) paired with the fund, for
\* current the most recent point and found the point `days` before it
ChangeFromLatest(fund, days) ==
    LET current == MostRecent(fund.dates_prices)
        found == PointAt(fund.dates_prices, current[1] - days)
        change == calculate_percentage(found[2], current[2])
    IN IF change.k = "raise" THEN change ELSE Ok(<<change.v, fund>>)

C3_NoPointIsAbsent ==
    (/\ IsLookup
     /\ Len(last.fund.dates_prices) >= 1
     /\ \/ ~HasPointAt(last.fund.dates_prices,
                       MostRecent(last.fund.dates_prices)[1] - ClaimedWindow)
        \/ ~HasPointAt(last.fund.dates_prices,
                       last.fund.dates_prices[Len(last.fund.dates_prices)][1]
                           - ClaimedWindow))
        => last.result = Ok(<<None, last.fund>>)

C3_Witness ==
    /\ last.op = "day_performance"
    /\ last.fund.dates_prices = <<<<ToOrdinal(<<2022, 4, 3>>), Num(80, 1)>>,
                                  <<ToOrdinal(<<2022, 4, 5>>), Num(100, 1)>>>>
    /\ last.result = Ok(<<None, last.fund>>)

(***************************************************************************)
(* C4 as stated: for a series held most recent first, the "Latest price"   *)
(* line shows the date of the most recent point and the most recent        *)
(* available price: the most recent point's, or the second most recent     *)
(* point's when that one is absent.                                        *)
(***************************************************************************)
AvailablePrice(dp) ==
    IF MostRecent(dp)[2].k = "num" THEN MostRecent(dp)[2] ELSE SecondMostRecent(dp)[2]

RequestedLines ==
    (IF last.day THEN 1 ELSE 0) + (IF last.week THEN 1 ELSE 0)
        + (IF last.year THEN 1 ELSE 0)

C5_UnavailableWindowRendered ==
    (/\ last.op = "generate_fund_performance_str"
     /\ Fund__str__(last.fund).k = "ok"
     /\ last.day => day_performance(last.fund).k = "ok"
     /\ last.week => week_performance(last.fund).k = "ok"
     /\ last.year => year_performance(last.fund).k = "ok")
        => /\ last.result.k = "ok"
           /\ Len(last.result.v) = 3 + RequestedLines

(***************************************************************************)
(* C6: Fund equality depends only on the symbols upper-cased at            *)
(* construction: Fund(a) == Fund(b) is True exactly when                   *)
(* upper(a) = upper(b) and False otherwise, whatever the currency, type,   *)
(* points and name, symmetrically and reflexively; and Fund(a) == s for a  *)
(* string s exactly when upper(a) = s as given.                            *)
(***************************************************************************)
C6_EqualityBySymbol ==
    last.op = "__eq__" =>
        /\ last.other.k = "Fund" =>
              /\ last.result = Ok(Upper(last.symbol) = Upper(last.other_symbol))
              /\ Fund__eq__(last.other.v, PyFund(last.self)) = last.result
        /\ last.other.k = "str" =>
              last.result = Ok(Upper(last.symbol) = last.other.v)
        /\ Fund__eq__(last.self, PyFund(last.self)) = Ok(TRUE)

(***************************************************************************)
(* C7: comparing a Fund with a value that is neither a Fund nor a string   *)
(* raises CoreError, never True or False, and the error reaches the caller *)
(* of custom_range_performance when the membership search over a non-empty *)
(* working set makes the comparison.                                       *)
(***************************************************************************)
C7_OtherTypeRaises ==
    /\ (last.op = "__eq__" /\ last.other.k \notin {"Fund", "str"})
          => last.result = Raise("CoreError")
    /\ (/\ last.op = "custom_range_performance"
        /\ last.fund.k \notin {"Fund", "str"}
        /\ funds # <<>>)
          => last.result = Raise("CoreError")

C7_Witness ==
    /\ last.op = "custom_range_performance"
    /\ last.fund = Num(5, 1)
    /\ Len(funds) = 2
    /\ last.result = Raise("CoreError")

(***************************************************************************)
(* C8: instantiate_funds never aborts on one bad symbol: it returns, and   *)
(* the funds it appended are those of the tracked entries whose provider   *)
(* result is a well-shaped payload with well-formed dates, in order, each  *)
(* with its display name when one is tracked.                              *)
(***************************************************************************)
WellFormedDate(str) ==
    /\ str[2] \in 1 .. 12
    /\ str[3] \in 1 .. DaysInMonth(str[1], str[2])

ValidPayload(data) ==
    /\ data.k = "dict"
    /\ data.keys # <<>>
    /\ data.body.currency # Missing
    /\ data.body.instrumentType # Missing
    /\ data.body.prices # Missing
    /\ \A i \in DOMAIN data.body.prices.v : WellFormedDate(data.body.prices.v[i][1])

FundOf(entry, data) ==
    [symbol |-> Upper(data.keys[1]),
     currency |-> Upper(data.body.currency.v),
     instrument_type |-> Upper(data.body.instrumentType.v),
     dates_prices |-> RawOrdinals(data.body.prices.v),
     name |-> IF Len(entry) > 1 THEN PyStr(entry[2]) ELSE None]

RECURSIVE ValidFunds(_, _)
ValidFunds(entries, world) ==
    IF entries = <<>>
    THEN <<>>
    ELSE (IF ValidPayload(world[Head(entries)[1]])
          THEN <<FundOf(Head(entries), world[Head(entries)[1]])>>
          ELSE <<>>) \o ValidFunds(Tail(entries), world)

C8_BadSymbolSkipped ==
    last.op = "instantiate_funds" =>
        /\ last.result.k = "ok"
        /\ SubSeq(funds, last.before + 1, Len(funds)) = ValidFunds(symbols_names, input)

(***************************************************************************)
(* C9: custom_range_performance on a held fund, with a start date inside   *)
(* the held series at which the series has a price, and an end date on or  *)
(* after the most current date: the provider is not called and the result  *)
(* is (percentage_change(start price, most current price), start, end,     *)
(* fund), its first component a number.                                    *)
(***************************************************************************)
HeldIndex(fund) ==
    CHOOSE i \in DOMAIN funds :
        /\ funds[i].symbol = SymbolOf(fund)
        /\ \A j \in 1 .. i - 1 : funds[j].symbol # SymbolOf(fund)

C9_HeldRangeFromMemory ==
    (/\ last.op = "custom_range_performance"
     /\ last.fund.k \in {"Fund", "str"}
     /\ \E i \in DOMAIN funds : funds[i].symbol = SymbolOf(last.fund)
     /\ LET dp == funds[HeldIndex(last.fund)].dates_prices
        IN /\ HasPointAt(dp, ToOrdinal(last.start))
           /\ PointAt(dp, ToOrdinal(last.start))[2].k = "num"
           /\ MostRecent(dp)[2].k = "num"
           /\ ToOrdinal(last.end) >= MostRecent(dp)[1])
        => LET dp == funds[HeldIndex(last.fund)].dates_prices
               change == calculate_percentage(PointAt(dp, ToOrdinal(last.start))[2],
                                              MostRecent(dp)[2])
           IN /\ last.fetched = 0
              /\ last.result = Ok(<<change.v, ToOrdinal(last.start),
                                    ToOrdinal(last.end), last.fund>>)

(***************************************************************************)
(* C10: save calls the repository exactly once, with the destination as    *)
(* given and with the given list when one is given, the working set only   *)
(* when none is.                                                           *)
(***************************************************************************)
C10_SaveHandsGivenList ==
    last.op = "save" =>
        /\ Len(repo_calls) = 1
        /\ repo_calls[1].data_file = last.data_file
        /\ repo_calls[1].data = IF last.data.k = "list" THEN last.data.v ELSE funds

(***************************************************************************)
(* C12: for every non-empty series in which prices may be absent, each of  *)
(* day_performance, week_performance and year_performance returns without  *)
(* raising a pair (number or absent value, the fund passed in), and an     *)
(* absent price at the most recent point or at the point dated the window  *)
(* before it gives the absent value.                                       *)
(***************************************************************************)
C12_AbsentPriceUnavailable ==
    (/\ IsLookup
     /\ Len(last.fund.dates_prices) >= 1)
        => /\ last.result.k = "ok"
           /\ last.result.v[2] = last.fund
           /\ last.result.v[1].k \in {"num", "none"}
           /\ LET dp == last.fund.dates_prices
                  target == MostRecent(dp)[1] - ClaimedWindow
              IN (/\ HasPointAt(dp, target)
                  /\ \/ MostRecent(dp)[2] = None
                     \/ PointAt(dp, target)[2] = None)
                    => last.result.v[1] = None

(***************************************************************************)
(* C11: the working set is append-only.  Every step keeps the working set  *)
(* as a prefix of the new one; every operation other than                  *)
(* instantiate_funds leaves it, and so every held Fund, as it is; the      *)
(* funds a run of instantiate_funds appends are in tracked order with at   *)
(* most one fund per tracked entry, and a run over a non-empty working set *)
(* appends again the funds the run before it appended.                     *)
(***************************************************************************)
\* built[j] comes from entry at[j], the entries taken in increasing order
InTrackedOrder(built, entries) ==
    \E at \in [DOMAIN built -> DOMAIN entries] :
        /\ \A j \in DOMAIN built : \A l \in DOMAIN built : j < l => at[j] < at[l]
        /\ \A j \in DOMAIN built :
              /\ built[j].symbol = Upper(entries[at[j]][1])
              /\ built[j].name = IF Len(entries[at[j]]) > 1
                                 THEN PyStr(entries[at[j]][2]) ELSE None

C11_AppendOnly ==
    [][/\ Len(funds') >= Len(funds)
       /\ SubSeq(funds', 1, Len(funds)) = funds
       /\ last'.op # "instantiate_funds" => funds' = funds
       /\ last'.op = "instantiate_funds" =>
              LET built == SubSeq(funds', Len(funds) + 1, Len(funds'))
              IN /\ InTrackedOrder(built, symbols_names)
                 /\ Len(built) <= Len(symbols_names)
                 /\ funds # <<>> =>
                       /\ built # <<>>
                       /\ built = SubSeq(funds, Len(funds) - Len(built) + 1,
                                         Len(funds))]_vars

C11_Witness ==
    /\ last.op = "instantiate_funds"
    /\ last.before = 2
    /\ last.result.k = "ok"
    /\ Len(funds) = 4
    /\ funds[1].symbol # funds[2].symbol
    /\ funds[3] = funds[1]
    /\ funds[4] = funds[2]

====
